---- MODULE Spec2Model ----
(***************************************************************************)
(* The to-do list core of todo-list-typescript-main: the Collection       *)
(* (FullList), its persistence in localStorage under STORAGE_KEY, the      *)
(* storage-event subscription, and the Renderer (ListTemplate).            *)
(*                                                                         *)
(* Every browser tab owns one FullList and one ListTemplate; all tabs      *)
(* share one localStorage.  LitsItem objects live in a per-tab heap and    *)
(* are named by references, so that "the same object" and "an equal        *)
(* object" differ, as they do in the program.                              *)
(***************************************************************************)
EXTENDS Integers, Sequences, FiniteSets, TLC

STORAGE_KEY == "myList"

\* Keys a storage event can carry besides STORAGE_KEY: another key of the
\* same origin, and null (localStorage.clear()).
OtherKeys == {"otherKey", "null"}

Tabs == {"A", "B"}

Ids == {"1", "2"}

Texts == {"a", "b"}

\* The callbacks a caller passes to subscribeToStorageEvents.
Callbacks == {"rerender", "notify"}

\* Longest in-memory list and stored array explored.
MaxLen == 2

\* Most storage events queued for one tab.
MaxPending == 2

\* Most calls of subscribeToStorageEvents made in one tab.
MaxSubscribes == 2

\* Longest list rendered in SpecRender.
MaxRows == 3

\* Longest list built by form submissions in SpecForm.
MaxForm == 3

\* Largest id a form submission assigns in SpecApp.
MaxId == 3

\* Longest list of SpecDup.
MaxDup == 3

VARIABLES
  tabs,          \* the open tabs (each has constructed its FullList.instance)
  list,          \* list[t]: FullList._list, a sequence of object references
  heap,          \* heap[t]: the LitsItem objects reachable in tab t
  rows,          \* rows[t]: the <li> children of ListTemplate.ul, top first
  storage,       \* localStorage's value under STORAGE_KEY
  pending,       \* pending[t]: storage events for STORAGE_KEY queued for t
  isSubscribed,  \* isSubscribed[t]: FullList._isSubscribed
  listeners,     \* listeners[t]: callbacks of the "storage" listeners added
  calls,         \* the calls made by the last handler, in order
  err,           \* the exception the last handler ended with, or "none"
  lastSaver,     \* the tab whose save() wrote the stored value last
  passed,        \* passed[t]: the callbacks given to subscribeToStorageEvents
  deaf,          \* the key was written while an open tab had no listener
  instance       \* instance[t]: the FullList object in FullList.instance

vars == <<tabs, list, heap, rows, storage, pending, isSubscribed, listeners,
          calls, err, lastSaver, passed, deaf, instance>>

(***************************************************************************)
(* Values                                                                  *)
(***************************************************************************)

\* new LitsItem(_id, _item, _checked)
LitsItem(id, item, checked) == [id |-> id, item |-> item, checked |-> checked]

Range(f) == {f[i] : i \in DOMAIN f}

\* localStorage.getItem(STORAGE_KEY) === null
Absent == [kind |-> "absent", recs |-> <<>>]

\* A stored string that is the JSON text of an array of records.
JSONArray(recs) == [kind |-> "array", recs |-> recs]

\* A stored string that JSON.parse rejects.
NotJSON == [kind |-> "notJSON", recs |-> <<>>]

\* A stored string that is the JSON text of a value without forEach: null,
\* a number, a string, an object.
NotArray == [kind |-> "notArray", recs |-> <<>>]

\* Array elements that are not records: null, and a number.
JSONnull == [kind |-> "null"]

JSONnumber == [kind |-> "number"]

\* JSON.stringify of one LitsItem: its private fields by name.
ItemToJSON(it) == [_id |-> it.id, _item |-> it.item, _checked |-> it.checked]

\* JSON.stringify(this._list)
JSONstringify(h, l) == JSONArray([i \in 1..Len(l) |-> ItemToJSON(h[l[i]])])

\* The (id, text, completed) triples of tab t's list, in list order.
ItemsOf(h, l) == [i \in 1..Len(l) |-> h[l[i]]]

(***************************************************************************)
(* The world a handler runs in.  A handler is a composition of calls, each *)
(* taking the world to the next one; a call made after an exception was    *)
(* thrown does nothing (the exception propagates, nothing catches it).     *)
(***************************************************************************)

\* The world at the start of a handler; full: the storage quota is exhausted.
World(full) ==
  [tabs |-> tabs, list |-> list, heap |-> heap, rows |-> rows,
   storage |-> storage, pending |-> pending, isSubscribed |-> isSubscribed,
   listeners |-> listeners, lastSaver |-> lastSaver, passed |-> passed,
   deaf |-> deaf, instance |-> instance,
   calls |-> <<>>, err |-> "none", full |-> full]

\* One call: the operation, the tab it runs in, its argument (a callback, a
\* key) where it matters, the list the callee finds (onChange) or the item
\* it is given (addItem), and the object it is given (addItem; 0: none).
Call(op, t, arg, seen) ==
  [op |-> op, tab |-> t, arg |-> arg, seen |-> seen, ref |-> 0]

Log(s, op, t) == [s EXCEPT !.calls = Append(@, Call(op, t, "", <<>>))]

Throw(s, e) == [s EXCEPT !.err = e]

\* The objects tab t can still reach: those in its list and those captured
\* by the handlers of its mounted rows.
Live(s, t) ==
  Range(s.list[t]) \cup {s.rows[t][k].ref : k \in DOMAIN s.rows[t]}

\* The reference of the next object constructed in tab t.
NewRef(s, t) ==
  CHOOSE r \in 1..(Cardinality(Live(s, t)) + 1) : r \notin Live(s, t)

\* Construct the object it at reference r.
Construct(s, t, r, it) ==
  [s EXCEPT !.heap[t] = [x \in Live(s, t) \cup {r} |->
                           IF x = r THEN it ELSE s.heap[t][x]]]

(***************************************************************************)
(* localStorage                                                            *)
(***************************************************************************)

\* localStorage.getItem(STORAGE_KEY)
getItem(s) == s.storage

\* localStorage.setItem(STORAGE_KEY, value) called in tab t.  The write
\* throws when the quota is exhausted.  Otherwise a storage event for the
\* key is queued for every other open tab that listens for storage events.
setItem(s, t, value) ==
  IF s.full
  THEN Throw([s EXCEPT !.calls = Append(@, Call("setItem", t, "throws", <<>>))],
             "QuotaExceededError")
  ELSE [Log(s, "setItem", t) EXCEPT
          !.storage = value,
          !.lastSaver = t,
          !.deaf = @ \/ \E u \in s.tabs \ {t} : s.listeners[u] = <<>>,
          !.pending = [u \in Tabs |->
                         IF u \in s.tabs /\ u # t /\ s.listeners[u] # <<>>
                         THEN @[u] + 1 ELSE @[u]]]

(***************************************************************************)
(* FullList                                                                *)
(***************************************************************************)

\* Mutant of FullListInstance: every access constructs a new FullList, with
\* an empty _list and not subscribed.
FullListInstanceFresh(s, t) ==
  IF s.err # "none" THEN s
  ELSE [s EXCEPT !.instance[t] = @ + 1,
                 !.list[t] = <<>>,
                 !.isSubscribed[t] = FALSE,
                 !.calls = Append(@, Call("instance", t, "", <<s.instance[t] + 1>>))]

\* FullList.instance: a read of the static field, which holds the object
\* constructed when the class was defined (the constructor is private).
FullListInstance(s, t) ==
  IF s.err # "none" THEN s
  ELSE [s EXCEPT !.calls = Append(@, Call("instance", t, "", <<s.instance[t]>>))]

\* Mutant of save: the records already stored that the list lacks are
\* kept (a merge instead of an overwrite).
saveMerging(s, t) ==
  IF s.err # "none" THEN s
  ELSE LET own == JSONstringify(s.heap[t], s.list[t]).recs
           kept == SelectSeq(s.storage.recs,
                             LAMBDA x : \A i \in DOMAIN own : own[i] # x)
       IN  setItem(Log(s, "save", t), t, JSONArray(own \o kept))

\* Mutant of save: an exception of the write is caught and dropped.
saveSwallowing(s, t) ==
  IF s.err # "none" THEN s
  ELSE [setItem(Log(s, "save", t), t, JSONstringify(s.heap[t], s.list[t]))
          EXCEPT !.err = "none"]

\* save(): localStorage.setItem(STORAGE_KEY, JSON.stringify(this._list))
save(s, t) ==
  IF s.err # "none" THEN s
  ELSE setItem(Log(s, "save", t), t, JSONstringify(s.heap[t], s.list[t]))

\* Mutant of loadItem: the completed flag is not restored.
loadItemUnchecked(s, t, itemObj) ==
  LET r == NewRef(s, t)
      newListItem == LitsItem(itemObj._id, itemObj._item, FALSE)
  IN  [Construct(s, t, r, newListItem) EXCEPT !.list[t] = Append(@, r)]

\* Mutant of loadItem: the item is added through the saving path, as
\* addItem does.
loadItemSaving(s, t, itemObj) ==
  LET r == NewRef(s, t)
      newListItem == LitsItem(itemObj._id, itemObj._item, itemObj._checked)
  IN  save([Log(Construct(s, t, r, newListItem), "addItem", t) EXCEPT
              !.list[t] = Append(@, r)], t)

\* The body of parsedList.forEach in load(): a new LitsItem from the
\* record's fields, pushed directly onto _list.
\* Reading a property of null throws; a property the element lacks is
\* undefined, for which the constructor takes its default.
loadItem(s, t, itemObj) ==
  IF itemObj = JSONnull THEN Throw(s, "TypeError")
  ELSE LET r == NewRef(s, t)
           newListItem ==
             LitsItem(IF "_id" \in DOMAIN itemObj THEN itemObj._id ELSE "",
                      IF "_item" \in DOMAIN itemObj THEN itemObj._item ELSE "",
                      IF "_checked" \in DOMAIN itemObj
                      THEN itemObj._checked ELSE FALSE)
       IN  [Construct(s, t, r, newListItem) EXCEPT !.list[t] = Append(@, r)]

RECURSIVE forEachLoad(_, _, _)
forEachLoad(s, t, parsedList) ==
  IF s.err # "none" \/ parsedList = <<>> THEN s
  ELSE forEachLoad(loadItem(s, t, Head(parsedList)), t, Tail(parsedList))

\* Mutant of load: the list is not emptied before the records are pushed.
loadAppending(s, t) ==
  IF s.err # "none" THEN s
  ELSE LET s1 == Log(s, "load", t)
           storedList == getItem(s1)
       IN  IF storedList.kind = "absent" THEN s1
           ELSE forEachLoad(s1, t, storedList.recs)

\* Mutant of load: a list that holds items already is left as it is.
loadIfEmpty(s, t) ==
  IF s.err # "none" THEN s
  ELSE LET s1 == Log(s, "load", t)
           storedList == getItem(s1)
       IN  IF s1.list[t] # <<>> \/ storedList.kind = "absent" THEN s1
           ELSE forEachLoad(s1, t, storedList.recs)

\* Mutant of load: a failure to parse or to rebuild is caught.
loadCatching(s, t) ==
  IF s.err # "none" THEN s
  ELSE LET s1 == [Log(s, "load", t) EXCEPT !.list[t] = <<>>]
           storedList == getItem(s1)
       IN  IF storedList.kind \in {"absent", "notJSON", "notArray"} THEN s1
           ELSE [forEachLoad(s1, t, storedList.recs) EXCEPT !.err = "none"]

\* load()
load(s, t) ==
  IF s.err # "none" THEN s
  ELSE LET s1 == [Log(s, "load", t) EXCEPT !.list[t] = <<>>]
           storedList == getItem(s1)
       IN  IF storedList.kind = "absent" THEN s1
           ELSE IF storedList.kind = "notJSON" THEN Throw(s1, "SyntaxError")
           ELSE IF storedList.kind = "notArray" THEN Throw(s1, "TypeError")
           ELSE forEachLoad(s1, t, storedList.recs)

\* Mutant of clearList: the list is emptied and not saved.
clearListNoSave(s, t) ==
  IF s.err # "none" THEN s
  ELSE [Log(s, "clearList", t) EXCEPT !.list[t] = <<>>]

\* clearList()
clearList(s, t) ==
  IF s.err # "none" THEN s
  ELSE save([Log(s, "clearList", t) EXCEPT !.list[t] = <<>>], t)

\* Mutant of addItem: when the save fails the pushed item is taken back.
addItemRollback(s, t, r) ==
  IF s.err # "none" THEN s
  ELSE LET s1 == [s EXCEPT !.calls = Append(@,
                     [Call("addItem", t, "", <<s.heap[t][r]>>) EXCEPT !.ref = r])]
           s2 == save([s1 EXCEPT !.list[t] = Append(@, r)], t)
       IN  IF s2.err # "none" THEN [s2 EXCEPT !.list[t] = s.list[t]] ELSE s2

\* Mutant of addItem: the list is saved before the item is pushed.
addItemSaveFirst(s, t, r) ==
  IF s.err # "none" THEN s
  ELSE LET s1 == save(Log(s, "addItem", t), t)
       IN  IF s1.err # "none" THEN s1
           ELSE [s1 EXCEPT !.list[t] = Append(@, r)]

\* Mutant of addItem: an item whose id is in the list already is rejected.
addItemUnique(s, t, r) ==
  IF s.err # "none" THEN s
  ELSE LET s1 == [s EXCEPT !.calls = Append(@,
                     [Call("addItem", t, "", <<s.heap[t][r]>>) EXCEPT !.ref = r])]
       IN  IF \E i \in DOMAIN s.list[t] :
                s.heap[t][s.list[t][i]].id = s.heap[t][r].id
           THEN s1
           ELSE save([s1 EXCEPT !.list[t] = Append(@, r)], t)

\* Mutant of addItem: a copy of the item is pushed, not the object given.
addItemCopy(s, t, r) ==
  IF s.err # "none" THEN s
  ELSE LET s1 == [s EXCEPT !.calls = Append(@,
                     [Call("addItem", t, "", <<s.heap[t][r]>>) EXCEPT !.ref = r])]
           c == CHOOSE x \in 1..(Cardinality(Live(s1, t)) + 2) :
                  x \notin Live(s1, t) \cup {r}
       IN  save([Construct(s1, t, c, s.heap[t][r]) EXCEPT
                   !.list[t] = Append(@, c)], t)

\* addItem(itemObj), itemObj the object at reference r
addItem(s, t, r) ==
  IF s.err # "none" THEN s
  ELSE LET s1 == [s EXCEPT !.calls = Append(@,
                     [Call("addItem", t, "", <<s.heap[t][r]>>) EXCEPT !.ref = r])]
       IN  save([s1 EXCEPT !.list[t] = Append(@, r)], t)

\* this._list.filter((item) => item.id !== id)
FilterOut(h, l, id) == SelectSeq(l, LAMBDA r : h[r].id # id)

\* Mutant of removeItem: the list is saved only when an item was removed.
removeItemIfChanged(s, t, id) ==
  IF s.err # "none" THEN s
  ELSE LET s1 == [s EXCEPT !.calls = Append(@, Call("removeItem", t, id, <<>>))]
       IN  IF \A i \in DOMAIN s.list[t] : s.heap[t][s.list[t][i]].id # id
           THEN s1
           ELSE save([s1 EXCEPT !.list[t] = FilterOut(s.heap[t], @, id)], t)

\* Mutant of removeItem: an id that no item has is an error.
removeItemStrict(s, t, id) ==
  IF s.err # "none" THEN s
  ELSE LET s1 == [s EXCEPT !.calls = Append(@, Call("removeItem", t, id, <<>>))]
       IN  IF \A i \in DOMAIN s.list[t] : s.heap[t][s.list[t][i]].id # id
           THEN Throw(s1, "NotFound")
           ELSE save([s1 EXCEPT !.list[t] = FilterOut(s.heap[t], @, id)], t)

\* Mutant of removeItem: only the first item with the id is removed.
removeItemFirst(s, t, id) ==
  IF s.err # "none" THEN s
  ELSE LET s1 == [s EXCEPT !.calls = Append(@, Call("removeItem", t, id, <<>>))]
           l == s.list[t]
           idx == {i \in DOMAIN l : s.heap[t][l[i]].id = id}
           first == CHOOSE i \in idx : \A j \in idx : i <= j
       IN  save([s1 EXCEPT !.list[t] =
                   IF idx = {} THEN l
                   ELSE [i \in 1..(Len(l) - 1) |->
                           IF i < first THEN l[i] ELSE l[i + 1]]], t)

\* removeItem(id)
removeItem(s, t, id) ==
  IF s.err # "none" THEN s
  ELSE LET s1 == [s EXCEPT !.calls = Append(@, Call("removeItem", t, id, <<>>))]
       IN  save([s1 EXCEPT !.list[t] = FilterOut(s.heap[t], @, id)], t)

(***************************************************************************)
(* ListTemplate                                                            *)
(***************************************************************************)

\* Mutant of clear: the Collection's list is emptied with the rows.
clearWithList(s, t) ==
  IF s.err # "none" THEN s
  ELSE [Log(s, "clear", t) EXCEPT !.rows[t] = <<>>, !.list[t] = <<>>]

\* clear(): this.ul.innerHTML = ""
clear(s, t) ==
  IF s.err # "none" THEN s
  ELSE [Log(s, "clear", t) EXCEPT !.rows[t] = <<>>]

\* The <li> built for one item: the checkbox's checked state and id, the
\* label's text, and the object the two handlers close over.
Row(h, r) ==
  [ref |-> r, checked |-> h[r].checked, label |-> h[r].item, id |-> h[r].id]

\* Mutant of render: each row is appended below the rows built before it.
renderAppend(s, t) ==
  IF s.err # "none" THEN s
  ELSE LET s1 == clear(Log(s, "render", t), t)
           l == s1.list[t]
       IN  [s1 EXCEPT !.rows[t] = [k \in 1..Len(l) |-> Row(s1.heap[t], l[k])]]

\* Mutant of render: the rows mounted before are not removed.
renderNoClear(s, t) ==
  IF s.err # "none" THEN s
  ELSE LET s1 == Log(s, "render", t)
           l == s1.list[t]
           n == Len(l)
       IN  [s1 EXCEPT !.rows[t] =
              [k \in 1..n |-> Row(s1.heap[t], l[n + 1 - k])] \o @]

\* render(fullList): clear(), then one row per item, each prepended.
render(s, t) ==
  IF s.err # "none" THEN s
  ELSE LET s1 == clear(Log(s, "render", t), t)
           l == s1.list[t]
           n == Len(l)
       IN  [s1 EXCEPT !.rows[t] =
              [k \in 1..n |-> Row(s1.heap[t], l[n + 1 - k])]]

\* The checkbox's "change" listener of row k:
\* item.checked = !item.checked; fullList.save()
\* Mutant of onCheckChange: the rows are rebuilt after the save.
onCheckChangeRender(s, t, k) ==
  IF s.err # "none" THEN s
  ELSE LET r == s.rows[t][k].ref
           s1 == [s EXCEPT !.calls = Append(@,
                     [Call("toggle", t, "", <<>>) EXCEPT !.ref = r])]
       IN  render(save([s1 EXCEPT !.heap[t][r].checked = ~@], t), t)

onCheckChange(s, t, k) ==
  IF s.err # "none" THEN s
  ELSE LET r == s.rows[t][k].ref
           s1 == [s EXCEPT !.calls = Append(@,
                     [Call("toggle", t, "", <<>>) EXCEPT !.ref = r])]
       IN  save([s1 EXCEPT !.heap[t][r].checked = ~@], t)

\* Mutant of onButtonClick: only the row's own item is removed.
onButtonClickOne(s, t, k) ==
  IF s.err # "none" THEN s
  ELSE LET r == s.rows[t][k].ref
           s1 == [s EXCEPT !.calls = Append(@,
                     [Call("delete", t, s.heap[t][r].id, <<>>) EXCEPT !.ref = r])]
           s2 == [s1 EXCEPT !.calls = Append(@,
                     Call("removeItem", t, s.heap[t][r].id, <<>>))]
       IN  render(save([s2 EXCEPT !.list[t] =
                          SelectSeq(@, LAMBDA x : x # r)], t), t)

\* Mutant of onButtonClick: the rows are rebuilt before the item is removed.
onButtonClickRenderFirst(s, t, k) ==
  IF s.err # "none" THEN s
  ELSE LET r == s.rows[t][k].ref
           s1 == [s EXCEPT !.calls = Append(@,
                     [Call("delete", t, s.heap[t][r].id, <<>>) EXCEPT !.ref = r])]
       IN  removeItem(render(s1, t), t, s.heap[t][r].id)

\* The delete button's "click" listener of row k:
\* fullList.removeItem(item.id); this.render(fullList)
onButtonClick(s, t, k) ==
  IF s.err # "none" THEN s
  ELSE LET r == s.rows[t][k].ref
           s1 == [s EXCEPT !.calls = Append(@,
                     [Call("delete", t, s.heap[t][r].id, <<>>) EXCEPT !.ref = r])]
       IN  render(removeItem(s1, t, s.heap[t][r].id), t)

\* Mutant of onClearClick: the rows are left mounted.
onClearClickListOnly(s, t) ==
  IF s.err # "none" THEN s
  ELSE clearList(Log(s, "clearAll", t), t)

\* The clear button's "click" listener:
\* fullList.clearList(); template.clear()
onClearClick(s, t) ==
  IF s.err # "none" THEN s
  ELSE clear(clearList(Log(s, "clearAll", t), t), t)

(***************************************************************************)
(* The application's wiring (main.ts)                                      *)
(***************************************************************************)

\* The texts the user leaves in the entry field.
Inputs == {"", "   ", "  a  ", "b"}

\* String.prototype.trim on the inputs above.
trim(x) ==
  CASE x = "   " -> ""
    [] x = "  a  " -> "a"
    [] OTHER -> x

\* The decimal numerals of the positive integers ids are made of.
Decimals == <<"1", "2", "3", "4", "5", "6", "7", "8", "9">>

NaN == -1

\* parseInt(x): the number a numeral denotes, NaN for any other string
\* the model uses.
parseInt(x) ==
  IF \E n \in DOMAIN Decimals : Decimals[n] = x
  THEN CHOOSE n \in DOMAIN Decimals : Decimals[n] = x
  ELSE NaN

\* Number.prototype.toString
toString(n) == IF n = NaN THEN "NaN" ELSE Decimals[n]

\* Mutant of itemId: the id follows that of the first item.
itemIdFromFirst(h, l) ==
  IF Len(l) # 0
  THEN LET first == parseInt(h[l[1]].id)
       IN  IF first = NaN THEN NaN ELSE first + 1
  ELSE 1

\* Mutant of itemId: the id is the length of the list plus one.
itemIdByLength(h, l) == Len(l) + 1

\* fullList.list.length
\*   ? parseInt(fullList.list[fullList.list.length - 1].id) + 1 : 1
itemId(h, l) ==
  IF Len(l) # 0
  THEN LET last == parseInt(h[l[Len(l)]].id)
       IN  IF last = NaN THEN NaN ELSE last + 1
  ELSE 1

\* Mutant of onSubmit: the text is not trimmed and not checked.
onSubmitUntrimmed(s, t, input) ==
  IF s.err # "none" THEN s
  ELSE LET s1 == [s EXCEPT !.calls = Append(@, Call("submit", t, input, <<>>))]
           newItem == LitsItem(toString(itemId(s.heap[t], s.list[t])),
                               input, FALSE)
           r == NewRef(s1, t)
       IN  render(addItem(Construct(s1, t, r, newItem), t, r), t)

\* Mutant of onSubmit: the rows are not rebuilt after the item is added.
onSubmitNoRender(s, t, input) ==
  IF s.err # "none" THEN s
  ELSE LET s1 == [s EXCEPT !.calls = Append(@, Call("submit", t, input, <<>>))]
           myEntryText == trim(input)
       IN  IF myEntryText = "" THEN s1
           ELSE LET newItem == LitsItem(toString(itemId(s.heap[t], s.list[t])),
                                        myEntryText, FALSE)
                    r == NewRef(s1, t)
                IN  addItem(Construct(s1, t, r, newItem), t, r)

\* The form's "submit" listener, the entry field holding input.
onSubmit(s, t, input) ==
  IF s.err # "none" THEN s
  ELSE LET s1 == [s EXCEPT !.calls = Append(@, Call("submit", t, input, <<>>))]
           myEntryText == trim(input)
       IN  IF myEntryText = "" THEN s1
           ELSE LET newItem == LitsItem(toString(itemId(s.heap[t], s.list[t])),
                                        myEntryText, FALSE)
                    r == NewRef(s1, t)
                IN  render(addItem(Construct(s1, t, r, newItem), t, r), t)

\* initApp's last two statements: fullList.load(); template.render(fullList)
initApp(s, t) ==
  IF s.err # "none" THEN s
  ELSE render(load(Log(s, "initApp", t), t), t)

(***************************************************************************)
(* Cross-tab subscription                                                  *)
(***************************************************************************)

\* Mutant of onStorageChange: the callback saves after it has rendered.
onStorageChangeSaving(s, t, cb) ==
  IF s.err # "none" THEN s
  ELSE LET s1 == [s EXCEPT !.calls = Append(@,
                     Call("onChange", t, cb, ItemsOf(s.heap[t], s.list[t])))]
       IN  save(IF cb = "rerender" THEN render(s1, t) ELSE s1, t)

\* The caller's onStorageChange callback.  "rerender" is the application's
\* () => template.render(fullList); any other callback only observes the
\* list it finds.
onStorageChange(s, t, cb) ==
  IF s.err # "none" THEN s
  ELSE LET s1 == [s EXCEPT !.calls = Append(@,
                     Call("onChange", t, cb, ItemsOf(s.heap[t], s.list[t])))]
       IN  IF cb = "rerender" THEN render(s1, t) ELSE s1

\* Mutant of storageListener: the callback runs also when load() threw.
storageListenerAlwaysCallback(s, t, cb, key) ==
  IF key = STORAGE_KEY
  THEN LET s1 == load(s, t)
       IN  [onStorageChange([s1 EXCEPT !.err = "none"], t, cb)
              EXCEPT !.err = s1.err]
  ELSE s

\* Mutant of storageListener: the callback runs, the list is not reloaded.
storageListenerNoLoad(s, t, cb, key) ==
  IF key = STORAGE_KEY THEN onStorageChange(s, t, cb) ELSE s

\* Mutant of storageListener: the callback runs before the list is reloaded.
storageListenerCallbackFirst(s, t, cb, key) ==
  IF key = STORAGE_KEY THEN load(onStorageChange(s, t, cb), t) ELSE s

\* Mutant of storageListener: the event's key is not looked at.
storageListenerAnyKey(s, t, cb, key) ==
  onStorageChange(load(s, t), t, cb)

\* The "storage" listener registered for callback cb, run for an event
\* carrying key.
storageListener(s, t, cb, key) ==
  IF key = STORAGE_KEY THEN onStorageChange(load(s, t), t, cb) ELSE s

\* Mutant of subscribeToStorageEvents: every call adds a listener.
subscribeEveryCall(s, t, cb) ==
  IF s.err # "none" THEN s
  ELSE [s EXCEPT !.calls = Append(@, Call("subscribe", t, cb, <<>>)),
                 !.passed[t] = Append(@, cb),
                 !.isSubscribed[t] = TRUE,
                 !.listeners[t] = Append(@, cb)]

\* subscribeToStorageEvents(onStorageChange)
subscribeToStorageEvents(s, t, cb) ==
  IF s.err # "none" THEN s
  ELSE LET s1 == [s EXCEPT !.calls = Append(@, Call("subscribe", t, cb, <<>>)),
                            !.passed[t] = Append(@, cb)]
       IN  IF s1.isSubscribed[t] THEN s1
           ELSE [s1 EXCEPT !.isSubscribed[t] = TRUE,
                           !.listeners[t] = Append(@, cb)]

\* window dispatches one storage event to the listeners added so far, in
\* the order they were added.  An exception a listener throws is reported
\* and does not stop the next listener.
RECURSIVE dispatchEvent(_, _, _, _)
dispatchEvent(s, t, ls, key) ==
  IF ls = <<>> THEN s
  ELSE LET s1 == storageListener([s EXCEPT !.err = "none"], t, Head(ls), key)
           s2 == dispatchEvent(s1, t, Tail(ls), key)
       IN  [s2 EXCEPT !.err = IF s.err # "none" THEN s.err
                               ELSE IF s1.err # "none" THEN s1.err
                               ELSE s2.err]

(***************************************************************************)
(* Steps                                                                   *)
(***************************************************************************)

\* Objects are renamed in the order the list and then the rows mention
\* them, and unreachable objects are dropped: the program cannot observe
\* either.
RECURSIVE Mentioned(_, _)
Mentioned(o, acc) ==
  IF o = <<>> THEN acc
  ELSE Mentioned(Tail(o), IF \E i \in DOMAIN acc : acc[i] = Head(o)
                          THEN acc ELSE Append(acc, Head(o)))

Normal(s, t) ==
  LET l == s.list[t]
      rw == s.rows[t]
      seen == Mentioned(l \o [k \in DOMAIN rw |-> rw[k].ref], <<>>)
      name == [r \in Range(seen) |-> CHOOSE i \in DOMAIN seen : seen[i] = r]
  IN  [name |-> name,
       list |-> [i \in DOMAIN l |-> name[l[i]]],
       rows |-> [k \in DOMAIN rw |-> [rw[k] EXCEPT !.ref = name[@]]],
       heap |-> [n \in DOMAIN seen |-> s.heap[t][seen[n]]]]

\* The handler ends in world s.
Commit(s) ==
  LET n == [t \in Tabs |-> Normal(s, t)]
  IN  /\ \A t \in Tabs : s.pending[t] <= MaxPending
      /\ tabs' = s.tabs
      /\ list' = [t \in Tabs |-> n[t].list]
      /\ rows' = [t \in Tabs |-> n[t].rows]
      /\ heap' = [t \in Tabs |-> n[t].heap]
      /\ storage' = s.storage
      /\ pending' = s.pending
      /\ isSubscribed' = s.isSubscribed
      /\ listeners' = s.listeners
      /\ lastSaver' = s.lastSaver
      /\ passed' = s.passed
      /\ deaf' = s.deaf
      /\ instance' = s.instance
      /\ calls' = [i \in DOMAIN s.calls |->
                     LET c == s.calls[i]
                     IN  IF c.ref = 0 THEN c
                         ELSE [c EXCEPT !.ref =
                                 IF @ \in DOMAIN n[c.tab].name
                                 THEN n[c.tab].name[@] ELSE 0]]
      /\ err' = s.err

\* const fullList = FullList.instance
Access(t) == Commit(FullListInstance(World(FALSE), t))

\* fullList.load()
Load(t) == Commit(load(World(FALSE), t))

\* fullList.save()
Save(t, full) == Commit(save(World(full), t))

\* const i = new LitsItem(id, item, checked); fullList.addItem(i)
AddItem(t, id, item, checked, full) ==
  LET w == World(full)
      r == NewRef(w, t)
  IN  Commit(addItem(Construct(w, t, r, LitsItem(id, item, checked)), t, r))

\* fullList.removeItem(id)
RemoveItem(t, id, full) == Commit(removeItem(World(full), t, id))

\* fullList.clearList()
ClearList(t, full) == Commit(clearList(World(full), t))

\* fullList.subscribeToStorageEvents(cb)
Subscribe(t, cb) ==
  /\ Len(passed[t]) < MaxSubscribes
  /\ Commit(subscribeToStorageEvents(World(FALSE), t, cb))

\* template.render(fullList)
Render(t) == Commit(render(World(FALSE), t))

\* template.clear()
Clear(t) == Commit(clear(World(FALSE), t))

\* The user activates the checkbox of row k: the browser flips the
\* checkbox and fires "change".
Toggle(t, k, full) ==
  /\ k \in DOMAIN rows[t]
  /\ Commit(onCheckChange([World(full) EXCEPT !.rows[t][k].checked = ~@], t, k))

\* The user clicks the delete button of row k.
Delete(t, k, full) ==
  /\ k \in DOMAIN rows[t]
  /\ Commit(onButtonClick(World(full), t, k))

\* The user submits the form with the text input in the entry field.
Submit(t, input, full) == Commit(onSubmit(World(full), t, input))

\* The page's initApp runs in tab t.
Startup(t) == Commit(initApp(World(FALSE), t))

\* The user clicks the clear button.
ClearAll(t, full) == Commit(onClearClick(World(full), t))

\* The browser delivers a queued storage event for STORAGE_KEY to tab t.
StorageEvent(t) ==
  /\ pending[t] > 0
  /\ Commit(dispatchEvent(
              [World(FALSE) EXCEPT
                 !.pending[t] = @ - 1,
                 !.calls = <<Call("event", t, STORAGE_KEY, <<>>)>>],
              t, listeners[t], STORAGE_KEY))

\* The browser delivers a storage event for another key (or for clear(),
\* whose key is null) to tab t.
OtherKeyEvent(t, key) ==
  Commit(dispatchEvent(
           [World(FALSE) EXCEPT !.calls = <<Call("event", t, key, <<>>)>>],
           t, listeners[t], key))

\* The stored records another writer of the key can leave.
StoredRecords ==
  {[_id |-> i, _item |-> x, _checked |-> c] : i \in Ids, x \in Texts, c \in BOOLEAN}

RECURSIVE SeqsUpTo(_, _)
SeqsUpTo(S, n) ==
  IF n = 0 THEN {<<>>}
  ELSE LET shorter == SeqsUpTo(S, n - 1)
       IN  shorter \cup {Append(q, x) : q \in shorter, x \in S}

ForeignRecords ==
  {[_id |-> "1", _item |-> "a", _checked |-> FALSE],
   [_id |-> "2", _item |-> "b", _checked |-> TRUE]}

ForeignPayloads == SeqsUpTo(ForeignRecords, MaxLen)

\* Another context of the origin (a tab not modelled here) sets the key.
ExternalWrite(value) ==
  Commit([Log(World(FALSE), "external", "ext") EXCEPT
            !.storage = value,
            !.lastSaver = "ext",
            !.deaf = @ \/ \E u \in tabs : listeners[u] = <<>>,
            !.pending = [u \in Tabs |->
                           IF u \in tabs /\ listeners[u] # <<>>
                           THEN @[u] + 1 ELSE @[u]]])

\* Another context of the origin removes the key (removeItem, or the user
\* clearing the site's data).
ExternalRemove ==
  /\ storage # Absent
  /\ Commit([Log(World(FALSE), "external", "ext") EXCEPT
               !.storage = Absent,
               !.lastSaver = "ext",
               !.deaf = @ \/ \E u \in tabs : listeners[u] = <<>>,
               !.pending = [u \in Tabs |->
                              IF u \in tabs /\ listeners[u] # <<>>
                              THEN @[u] + 1 ELSE @[u]]])

(***************************************************************************)
(* Specifications                                                          *)
(***************************************************************************)

\* Every tab has constructed its FullList (an empty _list, not subscribed)
\* and its ListTemplate (no rows mounted).
Constructed(open, stored) ==
  /\ tabs = open
  /\ list = [t \in Tabs |-> <<>>]
  /\ heap = [t \in Tabs |-> <<>>]
  /\ rows = [t \in Tabs |-> <<>>]
  /\ storage = stored
  /\ pending = [t \in Tabs |-> 0]
  /\ isSubscribed = [t \in Tabs |-> FALSE]
  /\ listeners = [t \in Tabs |-> <<>>]
  /\ calls = <<>>
  /\ err = "none"
  /\ lastSaver = "none"
  /\ passed = [t \in Tabs |-> <<>>]
  /\ deaf = FALSE
  /\ instance = [t \in Tabs |-> 1]

\* The items a caller adds in the specifications below: both ids with both
\* texts, completed or not.
NewItems ==
  {LitsItem("1", "a", FALSE), LitsItem("1", "b", TRUE),
   LitsItem("2", "a", TRUE), LitsItem("2", "b", FALSE)}

\* Spec: one tab's Collection, the storage failing or not, and a foreign
\* writer of the key.
Init == Constructed({"A"}, Absent)

Next ==
  \/ \E t \in tabs : Load(t)
  \/ \E t \in tabs, full \in BOOLEAN : Save(t, full)
  \/ \E t \in tabs, it \in NewItems, full \in BOOLEAN :
       Len(list[t]) < MaxLen /\ AddItem(t, it.id, it.item, it.checked, full)
  \/ \E t \in tabs, id \in Ids, full \in BOOLEAN : RemoveItem(t, id, full)
  \/ \E t \in tabs, full \in BOOLEAN : ClearList(t, full)
  \/ \E recs \in ForeignPayloads : ExternalWrite(JSONArray(recs))
  \/ ExternalRemove

Spec == Init /\ [][Next]_vars

\* The items a caller adds where objects or tabs multiply the states.
FewItems == {LitsItem("1", "a", FALSE), LitsItem("2", "b", TRUE)}

\* SpecView: one tab's Collection and its Renderer.
NextView ==
  \/ \E t \in tabs : Load(t)
  \/ \E t \in tabs, it \in FewItems :
       Len(list[t]) < MaxLen /\ AddItem(t, it.id, it.item, it.checked, FALSE)
  \/ \E t \in tabs, id \in Ids : RemoveItem(t, id, FALSE)
  \/ \E t \in tabs : ClearList(t, FALSE)
  \/ \E t \in tabs : Render(t)
  \/ \E t \in tabs : Clear(t)
  \/ \E t \in tabs, k \in 1..MaxLen, full \in BOOLEAN : Toggle(t, k, full)
  \/ \E t \in tabs, k \in 1..MaxLen : Delete(t, k, FALSE)
  \/ \E t \in tabs : ClearAll(t, FALSE)

SpecView == Init /\ [][NextView]_vars

\* The items rendered in SpecRender: three tasks with ids 1, 2, 3.
RowItems ==
  {LitsItem("1", "A", FALSE), LitsItem("2", "B", TRUE),
   LitsItem("3", "C", FALSE)}

\* SpecRender: the Renderer on lists of up to MaxRows items.
NextRender ==
  \/ \E t \in tabs, it \in RowItems :
       Len(list[t]) < MaxRows /\ AddItem(t, it.id, it.item, it.checked, FALSE)
  \/ \E t \in tabs : ClearList(t, FALSE)
  \/ \E t \in tabs : Render(t)
  \/ \E t \in tabs : Clear(t)

SpecRender == Init /\ [][NextRender]_vars

\* SpecForm: one tab's entry form and checkboxes.
NextForm ==
  \/ \E t \in tabs, input \in Inputs, full \in BOOLEAN :
       Len(list[t]) < MaxForm /\ Submit(t, input, full)
  \/ \E t \in tabs, k \in 1..MaxForm : Toggle(t, k, FALSE)

SpecForm == Init /\ [][NextForm]_vars

\* SpecApp: the application in two tabs, each with its form, its rows'
\* delete buttons and its clear button, subscribed or not with the
\* callback that renders.
InitApp == Constructed({"A", "B"}, Absent)

NextApp ==
  \/ \E t \in tabs : ~isSubscribed[t] /\ Subscribe(t, "rerender")
  \/ \E t \in tabs : Startup(t)
  \/ \E t \in tabs, input \in {"  a  "} :
       /\ itemId(heap[t], list[t]) <= MaxId
       /\ Submit(t, input, FALSE)
  \/ \E t \in tabs, k \in 1..MaxId : Delete(t, k, FALSE)
  \/ \E t \in tabs : ClearAll(t, FALSE)
  \/ \E t \in tabs : StorageEvent(t)

SpecApp == InitApp /\ [][NextApp]_vars

\* What a foreign writer leaves in SpecBad: payloads load() cannot parse or
\* rebuild, and payloads it can.
BadPayloads ==
  {NotJSON, NotArray,
   JSONArray(<<JSONnull>>),
   JSONArray(<<ItemToJSON(LitsItem("2", "b", TRUE)), JSONnull>>),
   JSONArray(<<JSONnumber>>),
   JSONArray(<<ItemToJSON(LitsItem("2", "b", TRUE))>>)}

\* SpecBad: one tab, subscribed or not, and a foreign writer of malformed
\* payloads.
NextBad ==
  \/ \E t \in tabs : ~isSubscribed[t] /\ Subscribe(t, "notify")
  \/ \E t \in tabs :
       Len(list[t]) < MaxLen /\ AddItem(t, "1", "a", FALSE, FALSE)
  \/ \E t \in tabs : Load(t)
  \/ \E t \in tabs : StorageEvent(t)
  \/ \E value \in BadPayloads : ExternalWrite(value)

SpecBad == Init /\ [][NextBad]_vars

\* The items added in SpecDup: two with the same id, one with another.
DupItems ==
  {LitsItem("1", "a", FALSE), LitsItem("1", "b", TRUE),
   LitsItem("2", "c", FALSE)}

\* SpecDup: one tab's Collection and Renderer with items sharing an id.
NextDup ==
  \/ \E t \in tabs, it \in DupItems :
       Len(list[t]) < MaxDup /\ AddItem(t, it.id, it.item, it.checked, FALSE)
  \/ \E t \in tabs : Render(t)
  \/ \E t \in tabs, k \in 1..MaxDup : Toggle(t, k, FALSE)
  \/ \E t \in tabs, k \in 1..MaxDup : Delete(t, k, FALSE)

SpecDup == Init /\ [][NextDup]_vars

\* SpecOne: accesses to FullList.instance between calls of its methods.
NextOne ==
  \/ \E t \in tabs : Access(t)
  \/ \E t \in tabs : ~isSubscribed[t] /\ Subscribe(t, "notify")
  \/ \E t \in tabs, it \in NewItems, full \in BOOLEAN :
       Len(list[t]) < MaxLen /\ AddItem(t, it.id, it.item, it.checked, full)
  \/ \E t \in tabs, id \in Ids, full \in BOOLEAN : RemoveItem(t, id, full)
  \/ \E t \in tabs, full \in BOOLEAN : ClearList(t, full)

SpecOne == Init /\ [][NextOne]_vars

\* SpecWired: the application in one tab, subscribed or not with the
\* callback that renders, the write of a submission failing or not, and a foreign
\* writer of the key, whose payload may be unparsable.
NextWired ==
  \/ \E t \in tabs : ~isSubscribed[t] /\ Subscribe(t, "rerender")
  \/ \E t \in tabs : Startup(t)
  \/ \E t \in tabs, full \in BOOLEAN :
       /\ Len(list[t]) < MaxLen
       /\ itemId(heap[t], list[t]) <= MaxId
       /\ Submit(t, "  a  ", full)
  \/ \E t \in tabs, k \in 1..MaxLen : Toggle(t, k, FALSE)
  \/ \E t \in tabs, k \in 1..MaxLen : Delete(t, k, FALSE)
  \/ \E t \in tabs : ClearAll(t, FALSE)
  \/ \E t \in tabs : StorageEvent(t)
  \/ \E value \in {NotJSON,
                    JSONArray(<<ItemToJSON(LitsItem("2", "b", TRUE))>>)} :
       ExternalWrite(value)

SpecWired == Init /\ [][NextWired]_vars

\* SpecQuiet: two tabs that subscribe with the callback that renders; the
\* users add items, finitely many; the browser delivers every storage event.
InitQuiet == Constructed({"A", "B"}, Absent)

NextQuiet ==
  \/ \E t \in tabs : ~isSubscribed[t] /\ Subscribe(t, "rerender")
  \/ \E t \in tabs, it \in FewItems :
       /\ isSubscribed["A"] /\ isSubscribed["B"]
       /\ Len(list[t]) < MaxLen
       /\ AddItem(t, it.id, it.item, it.checked, FALSE)
  \/ \E t \in tabs : StorageEvent(t)

\* The browser takes one event off tab t's queue.  In NextQuiet these are
\* the steps of StorageEvent(t) (C35_Delivery), whose only guard is that
\* the queue is not empty, so fairness is stated on the queue.
EventDelivered(t) ==
  /\ pending[t] > 0
  /\ pending' = [pending EXCEPT ![t] = @ - 1]

SpecQuiet ==
  /\ InitQuiet
  /\ [][NextQuiet]_vars
  /\ \A t \in Tabs : WF_pending(EventDelivered(t))

\* SpecSub: one subscribing tab and a foreign writer of the key.
NextSub ==
  \/ \E t \in tabs, cb \in Callbacks : Subscribe(t, cb)
  \/ \E t \in tabs :
       Len(list[t]) < MaxLen /\ AddItem(t, "1", "a", FALSE, FALSE)
  \/ \E t \in tabs : StorageEvent(t)
  \/ \E t \in tabs, key \in OtherKeys : OtherKeyEvent(t, key)
  \/ \E recs \in ForeignPayloads : ExternalWrite(JSONArray(recs))

SpecSub == Init /\ [][NextSub]_vars

\* SpecSync: two tabs sharing the key.
InitSync ==
  \E stored \in {Absent, JSONArray(<<ItemToJSON(LitsItem("2", "b", TRUE))>>)} :
    Constructed({"A", "B"}, stored)

NextSync ==
  \/ \E t \in tabs :
       ~isSubscribed[t] /\ Subscribe(t, "notify")
  \/ \E t \in tabs : Load(t)
  \/ \E t \in tabs : Save(t, FALSE)
  \/ \E t \in tabs, it \in FewItems :
       Len(list[t]) < MaxLen /\ AddItem(t, it.id, it.item, it.checked, FALSE)
  \/ \E t \in tabs, id \in Ids : RemoveItem(t, id, FALSE)
  \/ \E t \in tabs : ClearList(t, FALSE)
  \/ \E t \in tabs : StorageEvent(t)

SpecSync == InitSync /\ [][NextSync]_vars

(***************************************************************************)
(* Properties                                                              *)
(***************************************************************************)

Mutators == {"addItem", "removeItem", "clearList", "toggle"}

\* The handler that just ended was exactly one call of op in tab t.
JustCalled(cs, op, t) == Len(cs) >= 1 /\ cs[1].op = op /\ cs[1].tab = t

\* The stored value holds exactly the records of tab t's list, in order.
StoredIs(st, h, l) == st = JSONstringify(h, l)

\* C1: after every successful addItem, removeItem or clearList, and after
\* every toggle activation, the stored value is the serialization of the
\* Collection's list in list order; save() is the last step of the
\* mutating call (only the re-render of the delete handler follows it).
C1_SaveIsLastStep ==
  \A i \in DOMAIN calls :
    (calls[i].op \in Mutators /\ err = "none") =>
      /\ i + 2 <= Len(calls)
      /\ calls[i + 1].op = "save"
      /\ calls[i + 2].op = "setItem"
      /\ \A j \in (i + 3)..Len(calls) : calls[j].op \in {"render", "clear"}
      /\ StoredIs(storage, heap[calls[i].tab], list[calls[i].tab])

\* A toggle of a row of a two-item list was saved.
C1_Witness ==
  /\ JustCalled(calls, "toggle", "A")
  /\ err = "none"
  /\ Len(list["A"]) = 2
  /\ \E i \in 1..2 : heap["A"][list["A"][i]].checked
  /\ storage.kind = "array" /\ Len(storage.recs) = 2

\* C2: round trip.  When the stored value is what save() writes for the
\* list, load() yields a list of the same length with the same
\* (id, text, completed) triples in the same order.
C2_RoundTrip ==
  [][\A t \in Tabs :
       (/\ StoredIs(storage, heap[t], list[t])
        /\ JustCalled(calls', "load", t))
       => /\ err' = "none"
          /\ Len(list'[t]) = Len(list[t])
          /\ ItemsOf(heap'[t], list'[t]) = ItemsOf(heap[t], list[t])]_vars

\* load() rebuilt a saved list of two items that share an id, one completed.
C2_Witness ==
  /\ JustCalled(calls, "load", "A")
  /\ Len(calls) = 1
  /\ lastSaver = "A"
  /\ StoredIs(storage, heap["A"], list["A"])
  /\ Len(list["A"]) = 2
  /\ heap["A"][list["A"][1]].id = heap["A"][list["A"][2]].id
  /\ heap["A"][list["A"][1]].checked # heap["A"][list["A"][2]].checked

C4_AbsentLoadKeepsList ==
  [][\A t \in Tabs :
       (storage.kind = "absent" /\ JustCalled(calls', "load", t))
       => ItemsOf(heap'[t], list'[t]) = ItemsOf(heap[t], list[t])]_vars

\* C4: what load() does with the key absent: the list is emptied.
C4_AbsentLoadEmptiesList ==
  [][\A t \in Tabs :
       (storage.kind = "absent" /\ JustCalled(calls', "load", t))
       => list'[t] = <<>>]_vars

\* No storage event waits for any tab.
Quiescent == \A t \in tabs : pending[t] = 0

\* C5: cross-tab convergence.  When every write of the key was made with
\* the other tab listening, then once no storage event is pending both
\* tabs' lists equal the stored value; and the stored value is the list of
\* the tab whose save() ran last.
C5_Convergence ==
  /\ lastSaver \in tabs => StoredIs(storage, heap[lastSaver], list[lastSaver])
  /\ (lastSaver \in tabs /\ ~deaf /\ Quiescent)
       => \A t \in tabs : StoredIs(storage, heap[t], list[t])

\* Tab A has just absorbed two items that tab B saved last.
C5_Witness ==
  /\ JustCalled(calls, "event", "A")
  /\ lastSaver = "B" /\ ~deaf /\ Quiescent
  /\ Len(list["A"]) = 2
  /\ StoredIs(storage, heap["B"], list["B"])

C7_StoredLosesX ==
  [][\A a \in Tabs, b \in Tabs :
       (/\ a # b
        /\ JustCalled(calls, "addItem", a) /\ err = "none"
        /\ pending[b] > 0
        /\ Len(calls') >= 1 /\ calls'[1].tab = b
        /\ calls'[1].op \in {"addItem", "removeItem", "clearList"})
       => LET X == heap[a][list[a][Len(list[a])]]
          IN  \A i \in DOMAIN storage'.recs : storage'.recs[i] # ItemToJSON(X)]_vars

\* C7: last writer wins.  A mutating call of tab b leaves as stored value
\* exactly b's list, whatever was stored and whatever events b has not
\* handled yet (no merge): a record of another tab's item X stays only if
\* b's own list holds an item with the same triple.  When tab a then
\* handles the event of b's write, a's list becomes b's saved list.
C7_LastWriterWins ==
  /\ [][\A b \in Tabs :
          (/\ Len(calls') >= 1 /\ calls'[1].tab = b
           /\ calls'[1].op \in {"addItem", "removeItem", "clearList"})
          => StoredIs(storage', heap'[b], list'[b])]_vars
  /\ [][\A a \in Tabs, b \in Tabs :
          (a # b /\ lastSaver = b /\ JustCalled(calls', "event", a))
          => ItemsOf(heap'[a], list'[a]) = ItemsOf(heap[b], list[b])]_vars

\* Tab B wrote last without having handled tab A's write; tab A has handled
\* B's event and is left with B's empty list.
C7_Witness ==
  /\ JustCalled(calls, "event", "A")
  /\ lastSaver = "B"
  /\ pending["B"] > 0
  /\ list["A"] = <<>> /\ list["B"] = <<>>
  /\ storage = JSONArray(<<>>)

Count(cs, op) == Cardinality({i \in DOMAIN cs : cs[i].op = op})

\* C8: however often subscribeToStorageEvents was called, the Collection
\* has one listener, that of the first call: one storage event for the key
\* causes exactly one load() and exactly one invocation of the first
\* call's callback, and no later call's callback is ever invoked.
C8_OneListener ==
  /\ \A t \in Tabs :
       listeners[t] = IF passed[t] = <<>> THEN <<>> ELSE <<passed[t][1]>>
  /\ \A i \in DOMAIN calls :
       calls[i].op = "onChange" => calls[i].arg = passed[calls[i].tab][1]
  /\ \A t \in Tabs :
       (JustCalled(calls, "event", t) /\ calls[1].arg = STORAGE_KEY
        /\ passed[t] # <<>>)
       => Count(calls, "load") = 1 /\ Count(calls, "onChange") = 1

\* A storage event was handled after two calls with different callbacks.
C8_Witness ==
  /\ JustCalled(calls, "event", "A") /\ calls[1].arg = STORAGE_KEY
  /\ Len(passed["A"]) = 2 /\ passed["A"][1] # passed["A"][2]
  /\ Count(calls, "onChange") = 1

\* The items load() builds from the stored records.
StoredItems(st) ==
  [k \in DOMAIN st.recs |->
     LitsItem(st.recs[k]._id, st.recs[k]._item, st.recs[k]._checked)]

\* C9: on a storage event for the key, load() runs before onChange(): the
\* list onChange finds is already the stored records.
C9_LoadBeforeOnChange ==
  \A i \in DOMAIN calls :
    calls[i].op = "onChange" =>
      /\ \E j \in 1..(i - 1) :
           calls[j].op = "load" /\ calls[j].tab = calls[i].tab
      /\ calls[i].seen = StoredItems(storage)

\* onChange found the two records a foreign writer stored.
C9_Witness ==
  /\ JustCalled(calls, "event", "A")
  /\ lastSaver = "ext"
  /\ \E i \in DOMAIN calls : calls[i].op = "onChange" /\ Len(calls[i].seen) = 2

\* C10: a storage event whose key is not STORAGE_KEY (another key, or
\* null) leaves the list as it is and invokes neither load() nor onChange.
C10_OtherKeyIgnored ==
  [][\A t \in Tabs :
       (JustCalled(calls', "event", t) /\ calls'[1].arg # STORAGE_KEY)
       => /\ list'[t] = list[t]
          /\ heap'[t] = heap[t]
          /\ Len(calls') = 1]_vars

\* A subscribed tab whose list differs from the stored value got an event
\* with a null key.
C10_Witness ==
  /\ calls = <<Call("event", "A", "null", <<>>)>>
  /\ isSubscribed["A"]
  /\ Len(list["A"]) >= 1
  /\ ~StoredIs(storage, heap["A"], list["A"])

\* C11: addItem(i) appends.  Whether or not the save that follows throws,
\* the list is one element longer, every previous element is the same
\* object with the same fields at the same position, and the last element
\* is the object given (not a copy), with the fields it was given with.  An
\* item whose id is already in the list is appended like any other.
C11_AddItemAppends ==
  [][\A t \in Tabs :
       JustCalled(calls', "addItem", t)
       => LET n == Len(list[t])
          IN  /\ Len(list'[t]) = n + 1
              /\ \A i \in 1..n :
                   /\ list'[t][i] = list[t][i]
                   /\ heap'[t][list'[t][i]] = heap[t][list[t][i]]
              /\ list'[t][n + 1] = calls'[1].ref
              /\ heap'[t][list'[t][n + 1]] = calls'[1].seen[1]]_vars

\* An item was appended whose id the first item of the list already had.
C11_Witness ==
  /\ JustCalled(calls, "addItem", "A")
  /\ err = "none"
  /\ Len(list["A"]) = 2
  /\ calls[1].ref = list["A"][2]
  /\ heap["A"][list["A"][1]].id = heap["A"][list["A"][2]].id
  /\ heap["A"][list["A"][1]].item # heap["A"][list["A"][2]].item

\* Tab t's list holds an item with the id.
HasId(h, l, id) == \E i \in DOMAIN l : h[l[i]].id = id

\* C12: removeItem is idempotent.  A removeItem(x) that follows a saved
\* removeItem(x) leaves the list, its objects and (when its own save
\* succeeds) the stored value as the first call left them.  removeItem of
\* an id that no item has leaves the list as it is and raises no error of
\* its own: the only exception is that of a storage write that fails.
C12_RemoveIdempotent ==
  [][\A t \in Tabs :
       JustCalled(calls', "removeItem", t)
       => /\ (/\ JustCalled(calls, "removeItem", t)
              /\ calls[1].arg = calls'[1].arg
              /\ err = "none")
             => /\ list'[t] = list[t]
                /\ heap'[t] = heap[t]
                /\ err' = "none" => storage' = storage
          /\ ~HasId(heap[t], list[t], calls'[1].arg)
             => /\ list'[t] = list[t]
                /\ heap'[t] = heap[t]
                /\ err' = "none" \/ calls'[Len(calls')].op = "setItem"
                /\ err' = "none" => StoredIs(storage', heap[t], list[t])]_vars

\* removeItem of an id that no item has ran on a list of two items, which
\* it left in place and saved over a foreign writer's value.
C12_Witness ==
  /\ JustCalled(calls, "removeItem", "A")
  /\ err = "none"
  /\ Len(list["A"]) = 2
  /\ ~HasId(heap["A"], list["A"], calls[1].arg)
  /\ lastSaver = "A"
  /\ StoredIs(storage, heap["A"], list["A"])

C14_ClearListEmpties ==
  [][\A t \in Tabs :
       /\ JustCalled(calls', "clearList", t)
          => /\ list'[t] = <<>>
             /\ err' = "none" => storage' = JSONArray(<<>>)
       /\ (/\ JustCalled(calls, "clearList", t) /\ err = "none"
           /\ JustCalled(calls', "load", t))
          => /\ list'[t] = <<>>
             /\ storage' = JSONArray(<<>>)
             /\ err' = "none"]_vars

\* clearList() has stored the empty array.
C14_Witness ==
  /\ JustCalled(calls, "clearList", "A")
  /\ err = "none"
  /\ lastSaver = "A"
  /\ storage = JSONArray(<<>>)
  /\ list["A"] = <<>>

\* C15 as claimed: the object a toggle flips is an element of the current
\* list, and the save that follows stores the flipped flag for it, for
\* every mounted row, also when load() has replaced the list's objects
\* since the rows were rendered.
C15_ToggleFlipsListItem ==
  [][\A t \in Tabs :
       JustCalled(calls', "toggle", t)
       => LET x == calls'[1].ref
          IN  /\ heap'[t][x].checked = ~heap[t][x].checked
              /\ \E i \in DOMAIN list'[t] :
                   /\ list'[t][i] = x
                   /\ err' = "none"
                      => storage'.recs[i]._checked = heap'[t][x].checked]_vars

\* C15: what the toggle does: it flips the object the row was rendered
\* from, whether or not the list still holds that object, and saves the
\* current list.
C15_ToggleFlipsCapturedItem ==
  [][\A t \in Tabs :
       JustCalled(calls', "toggle", t)
       => LET x == calls'[1].ref
          IN  /\ \E k \in DOMAIN rows[t] : rows[t][k].ref = x
              /\ heap'[t][x].checked = ~heap[t][x].checked
              /\ err' = "none" => StoredIs(storage', heap'[t], list'[t])]_vars

\* A row was toggled whose object load() had replaced: the list and the
\* stored value keep the old flag while the checkbox shows the new one.
C15_StaleToggle ==
  /\ JustCalled(calls, "toggle", "A")
  /\ err = "none"
  /\ calls[1].ref \notin Range(list["A"])
  /\ Len(list["A"]) = 1 /\ Len(rows["A"]) = 1
  /\ rows["A"][1].id = heap["A"][list["A"][1]].id
  /\ rows["A"][1].checked # heap["A"][list["A"][1]].checked

\* C16: a toggle changes the completed flag of the one object it flips and
\* the stored value, and nothing else: the list (length, objects, order),
\* every id and text and every other flag are as before, the rows are the
\* rows mounted before (only the activated checkbox changed its state), and
\* the handler calls neither render nor clear.
C16_ToggleKeepsStructure ==
  [][\A t \in Tabs :
       JustCalled(calls', "toggle", t)
       => LET x == calls'[1].ref
          IN  /\ list'[t] = list[t]
              /\ heap'[t] = [heap[t] EXCEPT ![x].checked = ~@]
              /\ Len(rows'[t]) = Len(rows[t])
              /\ \A k \in DOMAIN rows[t] :
                   \/ rows'[t][k] = rows[t][k]
                   \/ /\ rows[t][k].ref = x
                      /\ rows'[t][k] = [rows[t][k] EXCEPT !.checked = ~@]
              /\ \A i \in DOMAIN calls' :
                   calls'[i].op \notin {"render", "clear", "load"}]_vars

\* One of two listed items was toggled and saved; the other kept its flag.
C16_Witness ==
  /\ JustCalled(calls, "toggle", "A")
  /\ err = "none"
  /\ Len(list["A"]) = 2 /\ Len(rows["A"]) = 2
  /\ calls[1].ref = list["A"][1]
  /\ heap["A"][list["A"][1]] = LitsItem("1", "a", TRUE)
  /\ heap["A"][list["A"][2]] = LitsItem("2", "b", TRUE)
  /\ StoredIs(storage, heap["A"], list["A"])

\* C17: the delete handler of a row calls removeItem(item.id) and then
\* render, in that order.  When the save succeeds, no item of the list has
\* that id, no stored record has it, and the rows are the remaining items
\* in reverse list order.
C17_DeleteRemovesThenRenders ==
  [][\A t \in Tabs :
       (JustCalled(calls', "delete", t) /\ err' = "none")
       => LET x == calls'[1].arg
              l == list'[t]
              n == Len(l)
          IN  /\ Len(calls') = 6
              /\ calls'[2].op = "removeItem" /\ calls'[2].arg = x
              /\ calls'[3].op = "save" /\ calls'[4].op = "setItem"
              /\ calls'[5].op = "render" /\ calls'[6].op = "clear"
              /\ \E k \in DOMAIN rows[t] : rows[t][k].id = x
              /\ ~HasId(heap'[t], l, x)
              /\ ItemsOf(heap'[t], l)
                   = SelectSeq(ItemsOf(heap[t], list[t]), LAMBDA it : it.id # x)
              /\ \A i \in DOMAIN storage'.recs : storage'.recs[i]._id # x
              /\ StoredIs(storage', heap'[t], l)
              /\ rows'[t] = [k \in 1..n |-> Row(heap'[t], l[n + 1 - k])]]_vars

\* The row of the first of two items was deleted; the row of the second
\* is the one row left.
C17_Witness ==
  /\ JustCalled(calls, "delete", "A")
  /\ err = "none"
  /\ calls[1].arg = "1"
  /\ Len(list["A"]) = 1 /\ Len(rows["A"]) = 1
  /\ rows["A"][1] = Row(heap["A"], list["A"][1])
  /\ rows["A"][1].id = "2"
  /\ storage = JSONArray(<<ItemToJSON(LitsItem("2", "b", TRUE))>>)

\* The handler that just ended rendered tab t last.
Rendered(cs, t) ==
  /\ Len(cs) >= 2
  /\ cs[Len(cs) - 1].op = "render" /\ cs[Len(cs) - 1].tab = t
  /\ cs[Len(cs)].op = "clear"

\* C18: render inverts the order.  After render of a list of n items
\* there are n rows, and the row at position k from the top is built from
\* the item at position n + 1 - k: its checkbox shows that item's completed
\* flag, its label that item's text, and its handlers hold that object.
C18_RenderInverts ==
  \A t \in Tabs :
    Rendered(calls, t)
    => LET n == Len(list[t])
       IN  /\ Len(rows[t]) = n
           /\ \A k \in 1..n :
                LET it == heap[t][list[t][n + 1 - k]]
                IN  /\ rows[t][k].ref = list[t][n + 1 - k]
                    /\ rows[t][k].checked = it.checked
                    /\ rows[t][k].label = it.item
                    /\ rows[t][k].id = it.id

\* The list [A(1), B(2), C(3)] is displayed as [C, B, A].
C18_Witness ==
  /\ JustCalled(calls, "render", "A")
  /\ Len(list["A"]) = 3 /\ Len(rows["A"]) = 3
  /\ [i \in 1..3 |-> heap["A"][list["A"][i]].item] = <<"A", "B", "C">>
  /\ [k \in 1..3 |-> rows["A"][k].label] = <<"C", "B", "A">>
  /\ [k \in 1..3 |-> rows["A"][k].id] = <<"3", "2", "1">>
  /\ [k \in 1..3 |-> rows["A"][k].checked] = <<FALSE, TRUE, FALSE>>

\* C19: render is a full rebuild that clears first.  Whatever rows were
\* mounted, render leaves as many rows as the list has items, one for each
\* element of the list and none for anything else, and does not change the
\* list; a render that follows a render leaves the same rows.
C19_RenderRebuilds ==
  [][\A t \in Tabs :
       JustCalled(calls', "render", t)
       => /\ Len(calls') = 2 /\ calls'[2].op = "clear"
          /\ list'[t] = list[t]
          /\ Len(rows'[t]) = Len(list[t])
          /\ \A i \in DOMAIN list[t] :
               Cardinality({k \in DOMAIN rows'[t] : rows'[t][k].ref = list'[t][i]})
                 = Cardinality({j \in DOMAIN list[t] : list[t][j] = list[t][i]})
          /\ JustCalled(calls, "render", t) => rows'[t] = rows[t]]_vars

\* render replaced the rows of an earlier list: the three rows mounted are
\* those of the three items of the list.
C19_Witness ==
  /\ JustCalled(calls, "render", "A")
  /\ Len(list["A"]) = 3 /\ Len(rows["A"]) = 3
  /\ lastSaver = "A"
  /\ heap["A"][list["A"][1]].id = heap["A"][list["A"][3]].id
  /\ {rows["A"][k].ref : k \in 1..3} = Range(list["A"])

\* C20: the clear button's handler, clearList() followed by clear(), when
\* the save succeeds leaves the list empty, the stored value the empty
\* array and no row mounted, whatever the list, the stored value and the
\* rows were.
C20_ClearAllEmptiesAll ==
  [][\A t \in Tabs :
       (JustCalled(calls', "clearAll", t) /\ err' = "none")
       => /\ list'[t] = <<>>
          /\ storage' = JSONArray(<<>>)
          /\ rows'[t] = <<>>
          /\ [i \in DOMAIN calls' |-> calls'[i].op]
               = <<"clearAll", "clearList", "save", "setItem", "clear">>]_vars

\* The clear button was clicked.
C20_Witness ==
  /\ JustCalled(calls, "clearAll", "A")
  /\ err = "none"
  /\ list["A"] = <<>> /\ rows["A"] = <<>>
  /\ storage = JSONArray(<<>>)

\* C21: under the application's handlers (form submission, row removal,
\* clear-all, startup and storage events in two tabs), starting from absent
\* storage, no list holds two items with the same id.
C21_UniqueIds ==
  \A t \in Tabs :
    \A i, j \in DOMAIN list[t] :
      heap[t][list[t][i]].id = heap[t][list[t][j]].id => i = j

\* Tab B, whose list had been replaced by tab A's, submitted the form after
\* a removal left it a list not starting at id 1.
C21_Witness ==
  /\ JustCalled(calls, "submit", "B")
  /\ lastSaver = "B"
  /\ [i \in DOMAIN list["B"] |-> heap["B"][list["B"][i]].id] = <<"2", "3">>
  /\ Len(list["A"]) = 1 /\ heap["A"][list["A"][1]].id = "1"

\* The ids of tab t's list, in list order.
IdsOf(h, l) == [i \in DOMAIN l |-> h[l[i]].id]

\* C22: sequential ids.  Starting from an empty Collection, the list that
\* n form submissions with non-empty text build has the ids "1", ..., n in
\* that order: three submissions give "1", "2", "3".
C22_SequentialIds ==
  \A t \in Tabs :
    IdsOf(heap[t], list[t])
      = SubSeq(<<"1", "2", "3", "4", "5">>, 1, Len(list[t]))

\* Three submissions were made.
C22_Witness ==
  /\ JustCalled(calls, "submit", "A")
  /\ err = "none"
  /\ IdsOf(heap["A"], list["A"]) = <<"1", "2", "3">>
  /\ IdsOf(heap["A"], list["A"]) = [k \in 1..3 |-> rows["A"][4 - k].id]
  /\ storage.kind = "array" /\ Len(storage.recs) = 3

\* C23: empty-input rejection.  A submission whose input is "" or only
\* whitespace calls nothing: list, objects, stored value and rows are as
\* before.  Any other submission appends one item whose text is the input
\* without its leading and trailing whitespace.
C23_EmptyInputRejected ==
  [][\A t \in Tabs :
       JustCalled(calls', "submit", t)
       => LET input == calls'[1].arg
          IN  IF input \in {"", "   "}
              THEN /\ Len(calls') = 1
                   /\ list'[t] = list[t] /\ heap'[t] = heap[t]
                   /\ storage' = storage
                   /\ rows'[t] = rows[t]
                   /\ err' = "none"
              ELSE /\ Len(calls') >= 2 /\ calls'[2].op = "addItem"
                   /\ Len(list'[t]) = Len(list[t]) + 1
                   /\ heap'[t][list'[t][Len(list'[t])]].item
                        = (IF input = "  a  " THEN "a" ELSE input)
                   /\ heap'[t][list'[t][Len(list'[t])]].checked = FALSE]_vars

\* A submission of whitespace was ignored, the list holding the items of
\* two earlier submissions, one of them trimmed.
C23_Witness ==
  /\ calls = <<Call("submit", "A", "   ", <<>>)>>
  /\ Len(list["A"]) = 2 /\ Len(rows["A"]) = 2
  /\ heap["A"][list["A"][1]].item = "a"
  /\ heap["A"][list["A"][2]].item = "b"

\* C24 as claimed: a load() that fails leaves the list exactly as it was
\* before the call, neither emptied nor partially filled.
C24_FailedLoadKeepsList ==
  [][\A t \in Tabs :
       (JustCalled(calls', "load", t) /\ err' # "none")
       => ItemsOf(heap'[t], list'[t]) = ItemsOf(heap[t], list[t])]_vars

\* C24: what a failing load() leaves: the list is emptied before the
\* payload is read, and holds the items rebuilt from the records that
\* precede the element on which the rebuilding failed.
C24_FailedLoadTruncates ==
  [][\A t \in Tabs :
       (JustCalled(calls', "load", t) /\ err' # "none")
       => \/ storage.kind \in {"notJSON", "notArray"} /\ list'[t] = <<>>
          \/ /\ storage.kind = "array"
             /\ \E n \in DOMAIN storage.recs :
                  /\ storage.recs[n] = JSONnull
                  /\ \A i \in 1..(n - 1) : storage.recs[i] # JSONnull
                  /\ ItemsOf(heap'[t], list'[t])
                       = StoredItems([storage EXCEPT
                                        !.recs = SubSeq(@, 1, n - 1)])]_vars

\* A load() that failed on unparsable text emptied a list of two items.
C24_Emptied ==
  /\ JustCalled(calls, "load", "A")
  /\ err = "SyntaxError"
  /\ list["A"] = <<>>

\* The element is a record of the three fields save() writes.
IsRecord(x) == DOMAIN x = {"_id", "_item", "_checked"}

\* The exception load() ends with on the stored value st: JSON.parse
\* rejects the text, the parsed value has no forEach, or an element is
\* null.
LoadError(st) ==
  IF st.kind = "notJSON" THEN "SyntaxError"
  ELSE IF st.kind = "notArray" THEN "TypeError"
  ELSE IF \E i \in DOMAIN st.recs : st.recs[i] = JSONnull THEN "TypeError"
  ELSE "none"

\* C25 as claimed: whenever the stored payload is not well-formed JSON or
\* is not an array of records, load() fails and the error propagates.
C25_NonRecordsFail ==
  [][\A t \in Tabs :
       (/\ JustCalled(calls', "load", t)
        /\ \/ storage.kind \in {"notJSON", "notArray"}
           \/ \E i \in DOMAIN storage.recs : ~IsRecord(storage.recs[i]))
       => err' # "none"]_vars

\* C25: load() catches nothing.  When the stored text is not well-formed
\* JSON, or parses to a value that is not an array, or to an array with a
\* null element, the exception ends the caller's handler, and ends the
\* storage listener when load() was called from it.  An array whose
\* elements are neither null nor records (a number) is no failure: load()
\* builds an item with the constructor's defaults from each.
C25_LoadFailurePropagates ==
  [][\A t \in Tabs :
       /\ JustCalled(calls', "load", t) => err' = LoadError(storage)
       /\ (JustCalled(calls', "event", t) /\ listeners[t] # <<>>)
          => err' = LoadError(storage)
       /\ (/\ JustCalled(calls', "load", t)
           /\ storage = JSONArray(<<JSONnumber>>))
          => ItemsOf(heap'[t], list'[t]) = <<LitsItem("", "", FALSE)>>]_vars

\* The storage listener ended with the TypeError of a null that follows a
\* record in the stored array.
C25_Witness ==
  /\ JustCalled(calls, "event", "A")
  /\ err = "TypeError"
  /\ storage.kind = "array" /\ Len(storage.recs) = 2
  /\ Len(list["A"]) = 1

\* C26: a storage write that fails ends save(), and the addItem,
\* removeItem or clearList that called it, with the write's exception:
\* nothing is called after the failed setItem, which is the handler's only
\* write, and the stored value is as before.
C26_WriteFailurePropagates ==
  [][\A i \in DOMAIN calls' :
       (calls'[i].op = "setItem" /\ calls'[i].arg = "throws")
       => /\ err' = "QuotaExceededError"
          /\ i = Len(calls')
          /\ Count(calls', "setItem") = 1
          /\ Count(calls', "save") = 1
          /\ calls'[i - 1].op = "save"
          /\ storage' = storage /\ lastSaver' = lastSaver]_vars

\* removeItem ended with the exception of its save's write.
C26_Witness ==
  /\ JustCalled(calls, "removeItem", "A")
  /\ err = "QuotaExceededError"
  /\ calls[Len(calls)].arg = "throws"
  /\ Len(calls) = 3
  /\ Len(list["A"]) = 1
  /\ storage.kind = "array" /\ Len(storage.recs) = 2

\* The number of items with the id in tab t's list.
CountId(h, l, id) == Cardinality({i \in DOMAIN l : h[l[i]].id = id})

\* C27: an item whose id an item of the list already has is added like any
\* other: the list and the stored value hold one more item with that id,
\* the earlier ones included, and render mounts one row for each of them.
C27_DuplicateIdKept ==
  /\ [][\A t \in Tabs :
          JustCalled(calls', "addItem", t)
          => LET x == calls'[1].seen[1].id
             IN  /\ CountId(heap'[t], list'[t], x)
                      = CountId(heap[t], list[t], x) + 1
                 /\ err' = "none"
                 /\ StoredIs(storage', heap'[t], list'[t])]_vars
  /\ [](\A t \in Tabs :
          Rendered(calls, t)
          => \A x \in {"1", "2"} :
               Cardinality({k \in DOMAIN rows[t] : rows[t][k].id = x})
                 = CountId(heap[t], list[t], x))

\* Two items with id "1" and different texts are in the list and have a
\* row each.
C27_Witness ==
  /\ JustCalled(calls, "render", "A")
  /\ Len(list["A"]) = 2 /\ Len(rows["A"]) = 2
  /\ IdsOf(heap["A"], list["A"]) = <<"1", "1">>
  /\ heap["A"][list["A"][1]].item # heap["A"][list["A"][2]].item
  /\ rows["A"][1].id = "1" /\ rows["A"][2].id = "1"
  /\ StoredIs(storage, heap["A"], list["A"])

\* C28: the delete button of a row whose id several items share removes
\* them all: afterwards the list, the stored value and the rows hold no
\* item of that id, and every item of another id is kept.
C28_DeleteRemovesAllMatching ==
  [][\A t \in Tabs :
       (/\ JustCalled(calls', "delete", t)
        /\ CountId(heap[t], list[t], calls'[1].arg) >= 2)
       => LET x == calls'[1].arg
          IN  /\ CountId(heap'[t], list'[t], x) = 0
              /\ \A i \in DOMAIN storage'.recs : storage'.recs[i]._id # x
              /\ \A k \in DOMAIN rows'[t] : rows'[t][k].id # x
              /\ Len(list'[t]) = Len(list[t]) - CountId(heap[t], list[t], x)
              /\ Len(rows'[t]) = Len(list'[t])
              /\ Len(storage'.recs) = Len(list'[t])]_vars

\* A delete button of id "1" was clicked in a list of three; the one item
\* of id "2" is left, with its row.
C28_Witness ==
  /\ JustCalled(calls, "delete", "A")
  /\ calls[1].arg = "1"
  /\ IdsOf(heap["A"], list["A"]) = <<"2">>
  /\ Len(rows["A"]) = 1 /\ rows["A"][1].id = "2"
  /\ storage = JSONArray(<<ItemToJSON(LitsItem("2", "c", FALSE))>>)

\* C29 as claimed: the checkbox of a row whose id several items share
\* flips the completed flag of every item of that id.
C29_ToggleFlipsAllMatching ==
  [][\A t \in Tabs :
       JustCalled(calls', "toggle", t)
       => LET x == heap[t][calls'[1].ref].id
          IN  \A i \in DOMAIN list[t] :
                heap[t][list[t][i]].id = x
                => heap'[t][list'[t][i]].checked = ~heap[t][list[t][i]].checked]_vars

\* C29: what the checkbox does: it flips the one object its row was built
\* from; every other item, of the same id or not, keeps its flag.
C29_ToggleFlipsOne ==
  [][\A t \in Tabs :
       JustCalled(calls', "toggle", t)
       => \A r \in DOMAIN heap[t] :
            heap'[t][r].checked
              = (IF r = calls'[1].ref THEN ~heap[t][r].checked
                 ELSE heap[t][r].checked)]_vars

\* Of two listed items with id "1", both not completed before, one was
\* toggled and the other was not.
C29_OneOfTwoFlipped ==
  /\ JustCalled(calls, "toggle", "A")
  /\ IdsOf(heap["A"], list["A"]) = <<"1", "1">>
  /\ calls[1].ref = list["A"][1]
  /\ heap["A"][list["A"][1]] = LitsItem("1", "a", TRUE)
  /\ heap["A"][list["A"][2]] = LitsItem("1", "a", FALSE)

\* C30 as claimed: load() of a non-empty stored array adds each rebuilt
\* item through addItem, which saves: setItem is called during load().
C30_LoadSavesEachItem ==
  [][\A t \in Tabs :
       (/\ JustCalled(calls', "load", t)
        /\ storage.kind = "array" /\ storage.recs # <<>>)
       => /\ \E i \in DOMAIN calls' : calls'[i].op = "addItem"
          /\ \E i \in DOMAIN calls' : calls'[i].op = "setItem"]_vars

\* load() rebuilt a foreign writer's two records and called nothing.
C30_SilentLoad ==
  /\ calls = <<Call("load", "A", "", <<>>)>>
  /\ lastSaver = "ext"
  /\ storage.kind = "array" /\ Len(storage.recs) = 2
  /\ StoredIs(storage, heap["A"], list["A"])

\* C31: FullList.instance is the same Collection on every access, and no
\* other is constructed: an access returns the object constructed first and
\* finds the list as the calls made through earlier accesses left it.
C31_Singleton ==
  /\ [](\A t \in Tabs : instance[t] = 1)
  /\ [][\A t \in Tabs :
          JustCalled(calls', "instance", t)
          => /\ calls'[1].seen = <<1>>
             /\ list'[t] = list[t]
             /\ heap'[t] = heap[t]
             /\ isSubscribed'[t] = isSubscribed[t]]_vars

\* An access found the two items added through earlier accesses.
C31_Witness ==
  /\ JustCalled(calls, "instance", "A")
  /\ Len(calls) = 1
  /\ Len(list["A"]) = 2
  /\ isSubscribed["A"]
  /\ StoredIs(storage, heap["A"], list["A"])

\* C32: with a payload stored, load() replaces the list: whatever the
\* list held, afterwards it is the stored records in stored order, so a
\* load() that follows a load() leaves the same list, with no item twice.
C32_LoadReplaces ==
  [][\A t \in Tabs :
       (JustCalled(calls', "load", t) /\ storage.kind = "array")
       => /\ ItemsOf(heap'[t], list'[t]) = StoredItems(storage)
          /\ Len(list'[t]) = Len(storage.recs)
          /\ JustCalled(calls, "load", t)
             => ItemsOf(heap'[t], list'[t]) = ItemsOf(heap[t], list[t])]_vars

\* load() left the one record a foreign writer stored.
C32_Witness ==
  /\ JustCalled(calls, "load", "A")
  /\ lastSaver = "ext"
  /\ storage.kind = "array" /\ Len(storage.recs) = 1
  /\ ItemsOf(heap["A"], list["A"]) = StoredItems(storage)

\* C33: render and clear change the mounted rows only: the list (its
\* length, its objects and their order), every item's id, text and
\* completed flag, and the stored value are as before.
C33_RendererKeepsList ==
  [][\A t \in Tabs :
       (JustCalled(calls', "render", t) \/ JustCalled(calls', "clear", t))
       => /\ list'[t] = list[t]
          /\ ItemsOf(heap'[t], list'[t]) = ItemsOf(heap[t], list[t])
          /\ storage' = storage
          /\ lastSaver' = lastSaver
          /\ \A i \in DOMAIN calls' : calls'[i].op \in {"render", "clear"}]_vars

\* clear() removed the rows of a list of two items, whose stored value is
\* that of an earlier list.
C33_Witness ==
  /\ calls = <<Call("clear", "A", "", <<>>)>>
  /\ rows["A"] = <<>>
  /\ Len(list["A"]) = 2
  /\ ~StoredIs(storage, heap["A"], list["A"])

\* The rows of tab t are the items of its list in reverse order, each row
\* bound to the object in the list and showing its flag, text and id.
RowsMatch(t) ==
  LET n == Len(list[t])
  IN  rows[t] = [k \in 1..n |-> Row(heap[t], list[t][n + 1 - k])]

\* C34 as claimed: under the application's wiring, after every handler
\* that completes the rows are the list's items in reverse order, bound to
\* the objects in the list, each checkbox showing its item's flag.
C34_RowsAlwaysMatch ==
  \A t \in tabs : err = "none" => RowsMatch(t)

\* C34: the rows match the list at the start; a handler that completes
\* without exception keeps them matching, and one that completes with a
\* render or with the clear-all's clear makes them match.  (A handler that
\* ends with an exception can leave them apart.)
C34_RowsFollowList ==
  /\ \A t \in Tabs : calls = <<>> => RowsMatch(t)
  /\ [][\A t \in tabs :
          (/\ err' = "none"
           /\ \/ RowsMatch(t)
              \/ calls'[Len(calls')].op = "clear" /\ calls'[1].tab = t)
          => RowsMatch(t)']_vars

\* A toggle completed on a list of two items whose rows match it, one of
\* them replaced by foreign records since.
C34_Witness ==
  /\ JustCalled(calls, "toggle", "A")
  /\ err = "none"
  /\ RowsMatch("A")
  /\ Len(list["A"]) = 2
  /\ rows["A"][1].checked /\ ~rows["A"][2].checked
  /\ StoredIs(storage, heap["A"], list["A"])

\* A toggle completed although the rows do not match the list: an earlier
\* handler had ended with an exception.
C34_Apart ==
  /\ JustCalled(calls, "toggle", "A")
  /\ err = "none"
  /\ ~RowsMatch("A")

C35_Delivery ==
  [][\A t \in Tabs :
       EventDelivered(t) <=> JustCalled(calls', "event", t)]_vars

C36_RemoveAbsentOverwrites ==
  [][\A t \in Tabs :
       (/\ JustCalled(calls', "removeItem", t)
        /\ ~HasId(heap[t], list[t], calls'[1].arg)
        /\ err' = "none")
       => /\ list'[t] = list[t] /\ heap'[t] = heap[t]
          /\ Count(calls', "save") = 1 /\ Count(calls', "setItem") = 1
          /\ StoredIs(storage', heap[t], list[t])
          /\ lastSaver' = t
          /\ pending'[t] = pending[t]]_vars

\* Tab A's item was stored; tab B, whose list is still empty and which has
\* the event of A's write queued, removed an id it does not hold: the
\* stored value is B's empty list and A's item is in no stored record.
C36_Witness ==
  /\ JustCalled(calls, "removeItem", "B")
  /\ err = "none"
  /\ list["B"] = <<>>
  /\ pending["B"] > 0
  /\ Len(list["A"]) = 1
  /\ lastSaver = "B"
  /\ storage = JSONArray(<<>>)
  /\ ~StoredIs(storage, heap["A"], list["A"])

\* The handler that just ended stopped at a setItem that threw.
WriteFailed(cs) == cs # <<>> /\ cs[Len(cs)].op = "setItem" /\ cs[Len(cs)].arg = "throws"

\* The handler that just ended wrote tab t's list to storage.
Wrote(cs, t) ==
  \E i \in DOMAIN cs : cs[i].op = "setItem" /\ cs[i].tab = t /\ cs[i].arg # "throws"

\* C37: when the write fails inside addItem, removeItem or clearList the
\* list has been changed already and stays changed (the item appended, the
\* items of the id filtered out, the list emptied) while the stored value
\* is as before: if the two agreed and the call changed the list, they
\* differ afterwards.  They come to agree only by a write of this tab that
\* succeeds, a load(), a write to the key from outside, or a further
\* change of the list by a call whose write fails.
C37_NoRollback ==
  /\ [][\A t \in Tabs :
          (WriteFailed(calls') /\ calls'[1].tab = t
           /\ calls'[1].op \in {"addItem", "removeItem", "clearList"})
          => LET before == ItemsOf(heap[t], list[t])
                 after  == ItemsOf(heap'[t], list'[t])
             IN  /\ err' = "QuotaExceededError"
                 /\ storage' = storage
                 /\ calls'[1].op = "addItem"
                      => after = Append(before, calls'[1].seen[1])
                 /\ calls'[1].op = "removeItem"
                      => after = SelectSeq(before,
                                   LAMBDA x : x.id # calls'[1].arg)
                 /\ calls'[1].op = "clearList" => after = <<>>
                 /\ (StoredIs(storage, heap[t], list[t]) /\ after # before)
                      => ~StoredIs(storage', heap'[t], list'[t])]_vars
  /\ [][\A t \in tabs :
          (/\ ~StoredIs(storage, heap[t], list[t])
           /\ StoredIs(storage', heap'[t], list'[t]))
          => \/ Wrote(calls', t)
             \/ Count(calls', "load") = 1 /\ err' = "none"
             \/ Count(calls', "external") = 1
             \/ /\ WriteFailed(calls')
                /\ calls'[1].op \in {"addItem", "removeItem", "clearList"}
                /\ ItemsOf(heap'[t], list'[t]) # ItemsOf(heap[t], list[t])]_vars

\* addItem's write failed: the list has the item, the stored array is the
\* one saved before, one record shorter.
C37_Witness ==
  /\ JustCalled(calls, "addItem", "A")
  /\ WriteFailed(calls)
  /\ err = "QuotaExceededError"
  /\ Len(list["A"]) = 2
  /\ storage.kind = "array" /\ Len(storage.recs) = 1
  /\ storage.recs[1] = ItemToJSON(heap["A"][list["A"][1]])

\* C38: when load() throws in the storage listener, onChange is not
\* invoked for that event and the handler ends with load()'s error; the
\* listener and the subscribed flag stay as they were, so a later event for
\* the key, whatever ended the handlers before it, is handled again: by one
\* load() and, when that load() succeeds, one onChange.
C38_ListenerSurvivesLoadError ==
  /\ [][\A t \in Tabs :
          (JustCalled(calls', "event", t) /\ calls'[1].arg = STORAGE_KEY
           /\ listeners[t] # <<>>)
          => /\ Count(calls', "load") = 1
             /\ err' = LoadError(storage)
             /\ Count(calls', "onChange") =
                  IF LoadError(storage) = "none" THEN 1 ELSE 0
             /\ listeners' = listeners
             /\ isSubscribed' = isSubscribed]_vars
  /\ [][\A t \in Tabs :
          listeners[t] # <<>> => listeners'[t] = listeners[t]]_vars

\* The listener ended with the SyntaxError of load(): onChange was not
\* invoked, the listener is registered and a further event is queued.
C38_Witness ==
  /\ JustCalled(calls, "event", "A")
  /\ err = "SyntaxError"
  /\ Count(calls, "load") = 1
  /\ Count(calls, "onChange") = 0
  /\ listeners["A"] = <<"notify">>
  /\ isSubscribed["A"]
  /\ pending["A"] > 0

====
